---- MODULE Spec2Model ----
(***************************************************************************)
(* The 3D model viewer of the portfolio pages: the ModelViewer class, the  *)
(* viewers registry and the global functions the page markup calls.        *)
(*                                                                         *)
(* The repository carries three builds of js/model-viewer.js:              *)
(*   "release"  src/unnamed/part_000, lines 1-505                          *)
(*   "debug"    src/unnamed/part_000, lines 506-1119                       *)
(*   "legacy"   src/js/model-viewer.js                                     *)
(* A page loads one of them; the build is fixed in the initial state.      *)
(*                                                                         *)
(* page[c] holds everything that belongs to canvas c: the fields of the    *)
(* ModelViewer object for that canvas (under their source names; an object *)
(* reference is TRUE when it is non-null), the DOM elements of its         *)
(* container, and the browser queues that hold its callbacks (animation    *)
(* frames, timers, event listeners, model fetches in flight).              *)
(*                                                                         *)
(* menu holds the mobile navigation of js/main.js: the menu button, the    *)
(* overlay #mobileNav and the scroll lock on the body.                     *)
(***************************************************************************)
EXTENDS Integers, Sequences, FiniteSets, TLC

VARIABLES page, hidden, build, isMobile, menu

vars == <<page, hidden, build, isMobile, menu>>

Canvases == {"viewer1", "viewer2"}

Builds == {"release", "debug", "legacy"}

\* The modes the page's buttons request; "xray" stands for any unrecognized string.
Modes == {"textured", "solid", "wireframe", "xray"}

\* The texture slots of a material that disposeMaterial knows about.
MapKinds == {"map", "normalMap", "roughnessMap", "metalnessMap"}

\* The model files of the page: the texture slots of each drawable sub-part.
Paths == {"full.glb", "mixed.glb"}

Asset(path) ==
    CASE path = "full.glb"  -> << {"map", "normalMap", "roughnessMap", "metalnessMap"} >>
      [] path = "mixed.glb" -> << {"map"}, {} >>
      [] OTHER              -> << >>

\* A file whose scene has no geometry: its bounding box is empty, and
\* Box3.getSize of an empty box is (0, 0, 0).
Files == Paths \cup {"empty.glb"}

\* Math.max(size.x, size.y, size.z) of the file's bounding box.
maxDim(path) ==
    CASE path = "full.glb"  -> 4
      [] path = "mixed.glb" -> 1
      [] OTHER              -> 0

\* What the loader reports to the progress callback: total is 0 when the
\* length of the response is not known.
Progresses == { [loaded |-> a, total |-> b] : a \in 0..3, b \in {0, 3} }

\* Bounds of the model.
MaxLoads == 2

MaxHandles == 3

CountCap == 2

Handles == 1..MaxHandles

\* What a layout measurement can return: the client size of the canvas's parent
\* container (clientWidth || offsetWidth) and of the canvas itself.  A box that
\* is not laid out (display: none, a collapsed section) measures 0 x 0.
Measurements ==
    { [container |-> <<300, 150>>, canvas |-> <<300, 150>>],
      [container |-> <<300, 150>>, canvas |-> <<0, 0>>],
      [container |-> <<0, 0>>,     canvas |-> <<0, 0>>] }

\* The layout of a canvas the page starts with.
Laid == [container |-> <<300, 150>>, canvas |-> <<300, 150>>]

\* The zoom limits setupControls gives the OrbitControls.
minDistance == 1

maxDistance == 10

\* Separations of two fingers on the canvas, in pixels along one axis.
Separations == {0, 1, 2, 4}

\* Where the first finger can touch the canvas: <<clientX, clientY>>.
Points == { <<5, 7>> }

\* Squared camera distances the user leaves the camera at with the zoom of
\* OrbitControls itself (wheel, or its own pinch): 2 and 5 units, and the two
\* limits, where OrbitControls stops a zoom that would go further.
DollyStops ==
    { <<2 * 2, 1>>, <<5 * 5, 1>>,
      <<minDistance * minDistance, 1>>, <<maxDistance * maxDistance, 1>> }

Bump(n) == IF n < CountCap THEN n + 1 ELSE n

Drop(n) == IF n > 0 THEN n - 1 ELSE 0

Throw(s, site) == [s EXCEPT !.threw = site]

(***************************************************************************)
(* Numbers.  A JavaScript number that the code obtains by division is kept *)
(* as the pair <<numerator, denominator>> in lowest terms, so that the     *)
(* quotients x/0 and 0/0 stay visible: <<1, 0>> is Infinity, <<0, 0>> NaN. *)
(* All operands are non-negative.                                          *)
(***************************************************************************)
RECURSIVE GCD(_, _)
GCD(a, b) == IF b = 0 THEN a ELSE GCD(b, a % b)

\* a / b
Quotient(a, b) ==
    IF b = 0
    THEN << IF a = 0 THEN 0 ELSE 1, 0 >>
    ELSE << a \div GCD(a, b), b \div GCD(a, b) >>

IsFinite(q) == q[2] # 0

\* p / q
Divide(p, q) ==
    IF ~IsFinite(p) \/ ~IsFinite(q)
    THEN IF IsFinite(p) /\ q = <<1, 0>> THEN <<0, 1>>
         ELSE IF p = <<1, 0>> /\ IsFinite(q) THEN <<1, 0>>
         ELSE <<0, 0>>
    ELSE Quotient(p[1] * q[2], p[2] * q[1])

\* p > n and p < n for an integer n; every comparison with NaN is false.
Greater(p, n) == IF IsFinite(p) THEN p[1] > n * p[2] ELSE p = <<1, 0>>

Less(p, n) == IsFinite(p) /\ p[1] < n * p[2]

\* Math.round(p)
Round(p) == IF IsFinite(p) THEN << (2 * p[1] + p[2]) \div (2 * p[2]), 1 >> ELSE p

(***************************************************************************)
(* The ModelViewer object.                                                 *)
(***************************************************************************)

\* The canvas before any script touched it.
Blank ==
    [ exists |-> FALSE, inRegistry |-> FALSE,
      scene |-> FALSE, camera |-> FALSE, renderer |-> FALSE, controls |-> FALSE,
      model |-> 0, animationId |-> 0, viewMode |-> "textured",
      isInitialized |-> FALSE, testCube |-> FALSE,
      autoRotate |-> FALSE, size |-> <<0, 0>>, aspect |-> <<0, 0>>,
      updated |-> FALSE, rendered |-> FALSE,
      children |-> {}, frames |-> {},
      resize |-> 0, visibilitychange |-> 0, touch |-> 0,
      loads |-> <<>>, released |-> <<>>,
      loadingEl |-> FALSE, errorEl |-> FALSE,
      canvasActive |-> FALSE, buttonHidden |-> FALSE, activeBtn |-> "none",
      timers |-> 0, threw |-> "none",
      replaced |-> {}, constructed |-> 0, initByLoad |-> 0,
      renderers |-> 0,
      layout |-> Laid,
      isTouch |-> FALSE, touchStartDistanceSq |-> 0, distanceSq |-> -1,
      touchStart |-> <<0, 0>>,
      positionLengthSq |-> <<0, 1>>,
      errorTimers |-> 0,
      percent |-> <<0, 1>>, progressText |-> <<0, 1>> ]

\* new ModelViewer(canvasId)
constructor(s) ==
    [s EXCEPT !.exists = TRUE,
              !.scene = FALSE, !.camera = FALSE, !.renderer = FALSE,
              !.controls = FALSE, !.model = 0, !.animationId = 0,
              !.viewMode = "textured", !.isInitialized = FALSE,
              !.touchStart = <<0, 0>>,
              !.touchStartDistanceSq = 0, !.isTouch = FALSE]

\* The handles requestAnimationFrame can hand out: never one that is pending.
\* (animate() overwrites animationId with the new handle in the same statement,
\* so a handle that has fired or was cancelled cannot be confused with it.)
FreeHandles(s) == Handles \ s.frames

\* The overlay is created with the progress text "0%"; the text goes with it.
showLoading(s, show) ==
    IF show
    THEN IF ~s.loadingEl
         THEN [s EXCEPT !.loadingEl = TRUE, !.progressText = <<0, 1>>]
         ELSE s
    ELSE [s EXCEPT !.loadingEl = FALSE, !.progressText = <<0, 1>>]

updateLoadingProgress(s, percent) ==
    IF s.loadingEl THEN [s EXCEPT !.progressText = Round(percent)] ELSE s

showError_always(s) ==
    [s EXCEPT !.errorEl = TRUE, !.errorTimers = @ + 1]

\* The overlay is created with its own 5 s removal timer only when none is
\* shown.  Nothing but its timer removes an overlay, so errorTimers, the
\* number of pending removal timers, is the number of .model-error elements
\* in the container, and errorEl says whether querySelector finds one.
showError(s) ==
    IF ~s.errorEl
    THEN [s EXCEPT !.errorEl = TRUE, !.errorTimers = @ + 1]
    ELSE s

\* The 5 s timer of an error overlay removes that overlay.
onErrorTimeout(s) ==
    [s EXCEPT !.errorEl = (s.errorTimers > 1), !.errorTimers = @ - 1]

\* width and height as the release and debug builds take them: from the parent
\* container, 400 when it reports zero.
FromContainer(m) ==
    << IF m.container[1] # 0 THEN m.container[1] ELSE 400,
       IF m.container[2] # 0 THEN m.container[2] ELSE 400 >>

\* The legacy build measures the canvas itself. aspect is kept as the pair
\* <<width, height>> it is the quotient of.
handleResize(s, m) ==
    IF ~s.camera \/ ~s.renderer
    THEN s
    ELSE LET wh == IF build = "legacy" THEN m.canvas ELSE FromContainer(m)
         IN  [s EXCEPT !.size = wh, !.aspect = wh]

\* hid is document.hidden at the time of the call. updated and rendered say
\* what this call did after scheduling the next frame.
animate_rendersHidden(s, hid) ==
    LET h == CHOOSE x \in FreeHandles(s) : \A y \in FreeHandles(s) : x <= y
        s1 == [s EXCEPT !.animationId = h, !.frames = @ \cup {h}]
    IN  [s1 EXCEPT !.updated = s.controls,
                   !.rendered = s.renderer /\ s.scene /\ s.camera]

animate(s, hid) ==
    LET h == CHOOSE x \in FreeHandles(s) : \A y \in FreeHandles(s) : x <= y
        s1 == [s EXCEPT !.animationId = h, !.frames = @ \cup {h}]
    IN  IF hid
        THEN [s1 EXCEPT !.updated = FALSE, !.rendered = FALSE]
        ELSE [s1 EXCEPT !.updated = s.controls,
                        !.rendered = s.renderer /\ s.scene /\ s.camera]

handleVisibilityChange_anyModel(s, hid) ==
    IF hid /\ s.animationId # 0
    THEN [s EXCEPT !.frames = @ \ {s.animationId}, !.animationId = 0]
    ELSE IF ~hid /\ s.animationId = 0
         THEN animate(s, hid)
         ELSE s

handleVisibilityChange(s, hid) ==
    IF hid /\ s.animationId # 0
    THEN [s EXCEPT !.frames = @ \ {s.animationId}, !.animationId = 0]
    ELSE IF ~hid /\ s.model # 0 /\ s.animationId = 0
         THEN animate(s, hid)
         ELSE s

\* One drawable sub-part as the loader delivers it; kinds are its texture slots.
Mesh(kinds) ==
    [ map          |-> IF "map" \in kinds THEN "map" ELSE "none",
      normalMap    |-> IF "normalMap" \in kinds THEN "normalMap" ELSE "none",
      roughnessMap |-> IF "roughnessMap" \in kinds THEN "roughnessMap" ELSE "none",
      metalnessMap |-> IF "metalnessMap" \in kinds THEN "metalnessMap" ELSE "none",
      originalMap  |-> "none",
      wireframe    |-> FALSE,
      color        |-> "original",
      castShadow   |-> FALSE,
      mobileTuned  |-> FALSE ]

\* The traverse callback of the success handler.
setupMaterial(mesh) ==
    [mesh EXCEPT !.castShadow = ~isMobile,
                 !.originalMap = IF mesh.map # "none" THEN mesh.map ELSE @,
                 !.mobileTuned = isMobile]

applyMode_noRestore(mesh, mode) ==
    CASE mode = "wireframe" -> [mesh EXCEPT !.wireframe = TRUE]
      [] mode = "solid" ->
            IF mesh.map # "none"
            THEN [mesh EXCEPT !.wireframe = FALSE, !.map = "none", !.color = "0x808080"]
            ELSE [mesh EXCEPT !.wireframe = FALSE]
      [] OTHER -> [mesh EXCEPT !.wireframe = FALSE]

\* The switch of setViewMode, for one sub-part.
applyMode(mesh, mode) ==
    CASE mode = "wireframe" -> [mesh EXCEPT !.wireframe = TRUE]
      [] mode = "solid" ->
            IF mesh.map # "none"
            THEN [mesh EXCEPT !.wireframe = FALSE, !.map = "none", !.color = "0x808080"]
            ELSE [mesh EXCEPT !.wireframe = FALSE]
      [] OTHER ->
            IF mesh.originalMap # "none"
            THEN [mesh EXCEPT !.wireframe = FALSE, !.map = mesh.originalMap]
            ELSE [mesh EXCEPT !.wireframe = FALSE]

setViewMode_hidesOverlay(s, mode) ==
    LET s1 == [s EXCEPT !.viewMode = mode]
    IN  IF s1.model = 0
        THEN [s1 EXCEPT !.loadingEl = FALSE]
        ELSE [s1 EXCEPT !.loads[s1.model].meshes =
                 [i \in DOMAIN @ |-> applyMode(@[i], mode)]]

setViewMode_stopsLoop(s, mode) ==
    LET s1 == [s EXCEPT !.viewMode = mode]
    IN  IF s1.model = 0
        THEN s1
        ELSE [s1 EXCEPT !.loads[s1.model].meshes =
                            [i \in DOMAIN @ |-> applyMode(@[i], mode)],
                        !.frames = @ \ {s1.animationId},
                        !.animationId = 0]

setViewMode(s, mode) ==
    LET s1 == [s EXCEPT !.viewMode = mode]
    IN  IF s1.model = 0
        THEN s1
        ELSE [s1 EXCEPT !.loads[s1.model].meshes =
                 [i \in DOMAIN @ |-> applyMode(@[i], mode)]]

\* The dispose calls disposeMaterial makes for sub-part i of model l, in order.
disposeMaterial_materialFirst(l, i, mesh) ==
    << <<l, i, "material">> >>
    \o (IF mesh.map # "none" THEN << <<l, i, mesh.map>> >> ELSE << >>)
    \o (IF mesh.normalMap # "none" THEN << <<l, i, mesh.normalMap>> >> ELSE << >>)
    \o (IF mesh.roughnessMap # "none" THEN << <<l, i, mesh.roughnessMap>> >> ELSE << >>)
    \o (IF mesh.metalnessMap # "none" THEN << <<l, i, mesh.metalnessMap>> >> ELSE << >>)

disposeMaterial(l, i, mesh) ==
    (IF mesh.map # "none" THEN << <<l, i, mesh.map>> >> ELSE << >>)
    \o (IF mesh.normalMap # "none" THEN << <<l, i, mesh.normalMap>> >> ELSE << >>)
    \o (IF mesh.roughnessMap # "none" THEN << <<l, i, mesh.roughnessMap>> >> ELSE << >>)
    \o (IF mesh.metalnessMap # "none" THEN << <<l, i, mesh.metalnessMap>> >> ELSE << >>)
    \o << <<l, i, "material">> >>

RECURSIVE disposeParts(_, _, _)
disposeParts(l, meshes, i) ==
    IF i > Len(meshes)
    THEN << >>
    ELSE << <<l, i, "geometry">> >> \o disposeMaterial(l, i, meshes[i])
         \o disposeParts(l, meshes, i + 1)

\* disposeModel(model): s.released records every dispose call, in call order.
disposeModel(s, l) ==
    [s EXCEPT !.released = @ \o disposeParts(l, s.loads[l].meshes, 1)]

\* The viewer drops its last reference to model l: the object is garbage, and
\* nothing can read its sub-parts again.
forget(s, l) == [s EXCEPT !.loads[l].meshes = << >>]

dispose(s) ==
    LET s1 == IF s.animationId # 0
              THEN [s EXCEPT !.frames = @ \ {s.animationId}]
              ELSE s
        s2 == [s1 EXCEPT !.resize = Drop(@), !.visibilitychange = Drop(@)]
        s3 == IF s2.model # 0 THEN forget(disposeModel(s2, s2.model), s2.model) ELSE s2
    IN  [s3 EXCEPT !.scene = FALSE, !.camera = FALSE, !.renderer = FALSE,
                   !.controls = FALSE, !.model = 0, !.children = {},
                   !.positionLengthSq = <<0, 1>>]


(***************************************************************************)
(* The touch listeners of setupTouchHandlers.  touches is e.touches.length *)
(* and d the separation of the first two touches.  Distances are kept as   *)
(* their squares: touchStartDistanceSq is touchStartDistance squared and   *)
(* positionLengthSq is camera.position.length() squared, both exact.       *)
(* distanceSq is the square of the local distance of the last touchmove    *)
(* of the current gesture that computed it, -1 when none did.              *)
(***************************************************************************)
\* at is <<clientX, clientY>> of the first touch.
onTouchStart(s, touches, at, d) ==
    IF touches = 1
    THEN [s EXCEPT !.isTouch = TRUE, !.touchStart = at, !.distanceSq = -1]
    ELSE IF touches = 2
         THEN [s EXCEPT !.isTouch = TRUE, !.touchStartDistanceSq = d * d,
                        !.distanceSq = -1]
         ELSE [s EXCEPT !.isTouch = TRUE, !.distanceSq = -1]

onTouchMove_inclusive(s, touches, d) ==
    IF ~s.isTouch \/ touches # 2 \/ s.touchStartDistanceSq = 0
    THEN s
    ELSE IF ~s.camera
         THEN Throw([s EXCEPT !.distanceSq = d * d], "camera.position")
         ELSE LET scaleSq == Quotient(d * d, s.touchStartDistanceSq)
                  newDistanceSq == Divide(s.positionLengthSq, scaleSq)
              IN  IF ~s.controls
                  THEN Throw([s EXCEPT !.distanceSq = d * d], "controls.minDistance")
                  ELSE IF /\ ~Less(newDistanceSq, minDistance * minDistance)
                          /\ ~Greater(newDistanceSq, maxDistance * maxDistance)
                       THEN [s EXCEPT !.positionLengthSq = newDistanceSq,
                                      !.touchStartDistanceSq = d * d,
                                      !.distanceSq = d * d]
                       ELSE [s EXCEPT !.distanceSq = d * d]

onTouchMove_zeroReference(s, touches, d) ==
    IF ~s.isTouch \/ touches # 2
    THEN s
    ELSE IF ~s.camera
         THEN Throw([s EXCEPT !.distanceSq = d * d], "camera.position")
         ELSE LET scaleSq == Quotient(d * d, s.touchStartDistanceSq)
                  newDistanceSq == Divide(s.positionLengthSq, scaleSq)
              IN  IF ~s.controls
                  THEN Throw([s EXCEPT !.distanceSq = d * d], "controls.minDistance")
                  ELSE IF /\ Greater(newDistanceSq, minDistance * minDistance)
                          /\ Less(newDistanceSq, maxDistance * maxDistance)
                       THEN [s EXCEPT !.positionLengthSq = newDistanceSq,
                                      !.touchStartDistanceSq = d * d,
                                      !.distanceSq = d * d]
                       ELSE [s EXCEPT !.distanceSq = d * d]

onTouchMove(s, touches, d) ==
    IF ~s.isTouch \/ touches # 2 \/ s.touchStartDistanceSq = 0
    THEN s
    ELSE IF ~s.camera
         THEN Throw([s EXCEPT !.distanceSq = d * d], "camera.position")
         ELSE LET scaleSq == Quotient(d * d, s.touchStartDistanceSq)
                  newDistanceSq == Divide(s.positionLengthSq, scaleSq)
              IN  IF ~s.controls
                  THEN Throw([s EXCEPT !.distanceSq = d * d], "controls.minDistance")
                  ELSE IF /\ Greater(newDistanceSq, minDistance * minDistance)
                          /\ Less(newDistanceSq, maxDistance * maxDistance)
                       THEN [s EXCEPT !.positionLengthSq = newDistanceSq,
                                      !.touchStartDistanceSq = d * d,
                                      !.distanceSq = d * d]
                       ELSE [s EXCEPT !.distanceSq = d * d]

onTouchEnd(s) ==
    [s EXCEPT !.isTouch = FALSE, !.touchStartDistanceSq = 0, !.distanceSq = -1]

(***************************************************************************)
(* init().  gl: the WebGLRenderer constructor succeeds; orbit:             *)
(* THREE.OrbitControls is defined.                                         *)
(***************************************************************************)

\* The legacy build has no try/catch around the renderer and no check for
\* OrbitControls: init throws, and the exception leaves load3DModel too.
initThrows(s, gl, orbit) ==
    build = "legacy" /\ ~s.isInitialized /\ (~gl \/ ~orbit)

setupControls(s, orbit) ==
    IF ~orbit THEN s ELSE [s EXCEPT !.controls = TRUE, !.autoRotate = FALSE]

setupTouchHandlers(s) ==
    IF ~isMobile THEN s ELSE [s EXCEPT !.touch = Bump(@)]

\* The part of init after the renderer exists.
initRest(s, orbit) ==
    IF build = "legacy" /\ ~orbit
    THEN Throw(s, "OrbitControls")
    ELSE LET s1 == setupTouchHandlers(setupControls(s, orbit))
             s2 == IF build = "debug"
                   THEN animate([s1 EXCEPT !.testCube = TRUE], hidden)
                   ELSE s1
         IN  [s2 EXCEPT !.resize = Bump(@), !.visibilitychange = Bump(@),
                        !.isInitialized = TRUE]

init(s, gl, orbit, m) ==
    IF s.isInitialized
    THEN s
    ELSE LET wh == IF build = "legacy" THEN m.canvas ELSE FromContainer(m)
             s1 == [s EXCEPT !.scene = TRUE, !.children = {}, !.camera = TRUE,
                             !.aspect = IF build = "release" THEN wh ELSE m.canvas,
                             !.positionLengthSq = <<0 * 0 + 1 * 1 + 3 * 3, 1>>]
         IN  IF ~gl
             THEN IF build = "legacy"
                  THEN Throw(s1, "WebGLRenderer")
                  ELSE showError(s1)
             ELSE initRest([s1 EXCEPT !.renderer = TRUE, !.renderers = Bump(@),
                                      !.size = wh], orbit)

(***************************************************************************)
(* loadModel(modelPath) and the three callbacks of loader.load.            *)
(***************************************************************************)

\* The legacy build constructs the loader without checking that it exists.
loadModelThrows(loader) == build = "legacy" /\ ~loader

loadModel(s, path, loader) ==
    LET s1 == IF build = "debug" /\ s.testCube
              THEN [s EXCEPT !.testCube = FALSE]
              ELSE s
        s2 == showLoading(s1, TRUE)
    IN  IF ~loader
        THEN IF build = "legacy"
             THEN Throw(s2, "GLTFLoader")
             ELSE showLoading(showError(s2), FALSE)
        ELSE [s2 EXCEPT !.loads = Append(@, [path |-> path, status |-> "pending",
                                             meshes |-> << >>, scale |-> <<1, 1>>])]

\* "Remove old model": the model that was current is taken out of the scene and
\* disposed.
removeOld(s) ==
    IF s.model = 0
    THEN s
    ELSE forget(disposeModel([s EXCEPT !.children = @ \ {s.model},
                                       !.replaced = @ \cup {s.model}], s.model),
                s.model)

\* "Center and scale model": the factor model.scale is multiplied by.
scale(path) ==
    IF build = "legacy"
    THEN Quotient(2, maxDim(path))
    ELSE IF maxDim(path) > 0 THEN Quotient(2, maxDim(path)) ELSE <<1, 1>>

adopt_latestOnly(s, l) ==
    IF l # Len(s.loads)
    THEN s
    ELSE [s EXCEPT !.model = l,
                   !.loads[l].scale = scale(s.loads[l].path),
                   !.loads[l].meshes =
                       [i \in DOMAIN Asset(s.loads[l].path) |->
                           setupMaterial(Mesh(Asset(s.loads[l].path)[i]))]]

\* this.model = gltf.scene and the material set-up of load l.
adopt(s, l) ==
    [s EXCEPT !.model = l,
              !.loads[l].scale = scale(s.loads[l].path),
              !.loads[l].meshes =
                  [i \in DOMAIN Asset(s.loads[l].path) |->
                      setupMaterial(Mesh(Asset(s.loads[l].path)[i]))]]

\* From scene.add to the start of the render loop; the builds differ in the
\* order of the overlay and the resize pass, and the legacy build has no pass.
present(s, l, m) ==
    LET s1 == [s EXCEPT !.children = @ \cup {l}]
        s2 == CASE build = "release" -> handleResize(showLoading(s1, FALSE), m)
                [] build = "debug"   -> showLoading(handleResize(s1, m), FALSE)
                [] OTHER             -> showLoading(s1, FALSE)
    IN  IF s2.animationId = 0 THEN animate(s2, hidden) ELSE s2

\* The success callback of load l.
onLoad(s, l, m) ==
    LET s0 == [s EXCEPT !.loads[l].status = "done"]
    IN  IF s0.model # 0 /\ ~s0.scene
        THEN Throw(s0, "scene.remove")
        ELSE LET s1 == adopt(removeOld(s0), l)
             IN  IF ~s1.scene
                 THEN Throw(s1, "scene.add")
                 ELSE LET s2 == present(s1, l, m)
                      IN  IF ~s2.controls
                          THEN Throw(s2, "controls.autoRotate")
                          ELSE [s2 EXCEPT !.autoRotate = TRUE, !.timers = @ + 1]

\* The progress callback of a load.
onProgress(s, progress) ==
    LET percent == IF build = "legacy"
                   THEN Quotient(progress.loaded * 100, progress.total)
                   ELSE IF progress.total > 0
                        THEN Quotient(progress.loaded * 100, progress.total)
                        ELSE <<0, 1>>
    IN  updateLoadingProgress([s EXCEPT !.percent = percent], percent)

onError_clearsScene(s, l) ==
    showLoading(showError([s EXCEPT !.loads[l].status = "failed",
                                    !.children = {}]), FALSE)

\* The error callback of load l.
onError(s, l) ==
    showLoading(showError([s EXCEPT !.loads[l].status = "failed"]), FALSE)

\* The 2 s timer of a successful load.
onRotateTimeout(s) ==
    LET s1 == [s EXCEPT !.timers = @ - 1]
    IN  IF ~s1.controls
        THEN Throw(s1, "timer.autoRotate")
        ELSE [s1 EXCEPT !.autoRotate = FALSE]

(***************************************************************************)
(* The global functions.                                                   *)
(***************************************************************************)

getOrCreate_always(s, gl, orbit, m) ==
    init([constructor(s) EXCEPT !.inRegistry = TRUE,
                                !.constructed = Bump(@),
                                !.initByLoad = Bump(@)], gl, orbit, m)

\* "Initialize viewer if needed"
getOrCreate(s, gl, orbit, m) ==
    IF s.inRegistry
    THEN s
    ELSE init([constructor(s) EXCEPT !.inRegistry = TRUE,
                                     !.constructed = Bump(@),
                                     !.initByLoad = Bump(@)], gl, orbit, m)

\* three: THREE is defined; loader: THREE.GLTFLoader is defined; btn: a trigger
\* button was passed.
load3DModel(s, path, btn, three, loader, gl, orbit, m) ==
    IF ~three \/ (build # "legacy" /\ ~loader)
    THEN s
    ELSE LET threwInInit == ~s.inRegistry /\ initThrows(constructor(s), gl, orbit)
             s1 == getOrCreate(s, gl, orbit, m)
         IN  IF threwInInit
             THEN s1
             ELSE LET s2 == loadModel([s1 EXCEPT !.canvasActive = TRUE], path, loader)
                  IN  IF loadModelThrows(loader) \/ ~btn
                      THEN s2
                      ELSE [s2 EXCEPT !.buttonHidden = TRUE]

\* The global setViewMode(canvasId, mode, buttonElement).
requestViewMode(s, mode) ==
    IF ~s.inRegistry
    THEN s
    ELSE [setViewMode(s, mode) EXCEPT !.activeBtn = mode]


(***************************************************************************)
(* The mobile menu of js/main.js.  btn and overlay say whether the page    *)
(* has the elements .mobile-menu-btn and #mobileNav; btnActive and         *)
(* overlayActive whether their class lists contain 'active'; overflow is   *)
(* document.body.style.overflow.  listening: DOMContentLoaded has attached *)
(* the click listeners of the menu's links.  last is the handler that      *)
(* changed the menu last and opened counts the times it was opened.        *)
(***************************************************************************)

\* The menu as the page's markup delivers it: closed, the body scrolling.
Markup(btn, overlay) ==
    [ btn |-> btn, overlay |-> overlay,
      btnActive |-> FALSE, overlayActive |-> FALSE, overflow |-> "",
      listening |-> FALSE, last |-> "none", opened |-> 0, threw |-> "none" ]

\* Where a click can land.
Targets == {"button", "overlay", "link", "outside"}

Keys == {"Escape", "Enter"}

\* The three statements with which every closing handler closes the menu.
close(m, by) ==
    [m EXCEPT !.btnActive = FALSE, !.overlayActive = FALSE, !.overflow = "",
              !.last = by]

toggleMobileMenu_noScrollLock(m) ==
    IF m.btn /\ m.overlay
    THEN [m EXCEPT !.btnActive = ~@, !.overlayActive = ~@,
                   !.last = "toggle",
                   !.opened = IF ~m.overlayActive THEN Bump(@) ELSE @]
    ELSE m

toggleMobileMenu(m) ==
    IF m.btn /\ m.overlay
    THEN [m EXCEPT !.btnActive = ~@, !.overlayActive = ~@,
                   !.overflow = IF ~m.overlayActive THEN "hidden" ELSE "",
                   !.last = "toggle",
                   !.opened = IF ~m.overlayActive THEN Bump(@) ELSE @]
    ELSE m

\* The click listener of the document. The link and the free area of the
\* overlay are inside the overlay; btn.contains is reached only for a target
\* outside the overlay, and throws when there is no button.
onDocumentClick(m, target) ==
    IF m.overlay /\ m.overlayActive
    THEN IF target \in {"overlay", "link"}
         THEN m
         ELSE IF ~m.btn
              THEN [m EXCEPT !.threw = "btn.contains"]
              ELSE IF target = "button" THEN m ELSE close(m, "outside")
    ELSE m

\* The click listener DOMContentLoaded gives each link of the menu.
onLinkClick(m) ==
    IF m.btn /\ m.overlay THEN close(m, "link") ELSE m

\* The keydown listener of the document.
onKeydown(m, key) ==
    IF key = "Escape" /\ m.btn /\ m.overlay /\ m.overlayActive
    THEN close(m, "escape")
    ELSE m


(***************************************************************************)
(* The state machine: one action per entry point, callback or event.       *)
(***************************************************************************)

Init ==
    /\ page = [c \in Canvases |-> Blank]
    /\ hidden = FALSE
    /\ build \in Builds
    /\ isMobile \in BOOLEAN
    /\ menu = Markup(TRUE, TRUE)

\* An action that can reach animate() needs a handle left to hand out.
CanSchedule(c) == FreeHandles(page[c]) # {}

Only_sharedContainer(c, s) ==
    /\ page' = [x \in Canvases |->
                  IF x = c
                  THEN s
                  ELSE [page[x] EXCEPT !.loadingEl = s.loadingEl,
                                       !.errorEl = s.errorEl,
                                       !.errorTimers = s.errorTimers,
                                       !.progressText = s.progressText]]
    /\ UNCHANGED <<hidden, build, isMobile, menu>>

\* A handler of the viewer of canvas c runs and leaves it as s.  It reads and
\* writes only its own object, its canvas and the canvas's parent element;
\* every canvas of the page has a parent element of its own.
Only(c, s) ==
    /\ page' = [page EXCEPT ![c] = s]
    /\ UNCHANGED <<hidden, build, isMobile, menu>>

\* onclick="load3DModel(canvasId, modelPath, this)", for the model files in
\* paths; btns says whether the markup passes the trigger button.
Load3DModel(c, paths, btns) ==
    \E path \in paths, btn \in btns, three \in BOOLEAN, loader \in BOOLEAN,
       gl \in BOOLEAN, orbit \in BOOLEAN, m \in {page[c].layout} :
        /\ ~page[c].exists \/ page[c].inRegistry
        /\ Len(page[c].loads) < MaxLoads
        /\ CanSchedule(c)
        /\ Only(c, load3DModel(page[c], path, btn, three, loader, gl, orbit, m))

\* onclick="setViewMode(canvasId, mode, this)"
SetViewMode(c) ==
    \E mode \in Modes : Only(c, requestViewMode(page[c], mode))

\* A script constructs a viewer of its own, outside the registry.
Construct(c) ==
    /\ ~page[c].exists
    /\ Only(c, constructor(page[c]))

\* viewer.init() called on an existing viewer.
InitCall(c) ==
    \E gl \in BOOLEAN, orbit \in BOOLEAN, m \in {page[c].layout} :
        /\ page[c].exists
        /\ CanSchedule(c)
        /\ Only(c, init(page[c], gl, orbit, m))

\* viewer.dispose() called on an existing viewer.
DisposeCall(c) ==
    /\ page[c].exists
    /\ Only(c, dispose(page[c]))

\* The loader delivers the parsed model of a pending load.
LoadSuccess(c) ==
    \E l \in DOMAIN page[c].loads, m \in {page[c].layout} :
        /\ page[c].loads[l].status = "pending"
        /\ CanSchedule(c)
        /\ Only(c, onLoad(page[c], l, m))

\* The loader reports the failure of a pending load.
LoadError(c) ==
    \E l \in DOMAIN page[c].loads :
        /\ page[c].loads[l].status = "pending"
        /\ Only(c, onError(page[c], l))

\* The browser runs a pending animation-frame callback.
Tick(c) ==
    \E h \in page[c].frames :
        /\ FreeHandles([page[c] EXCEPT !.frames = @ \ {h}]) # {}
        /\ Only(c, animate([page[c] EXCEPT !.frames = @ \ {h}], hidden))

\* The 2 s auto-rotate timer of a successful load fires.
RotateTimeout(c) ==
    /\ page[c].timers > 0
    /\ Only(c, onRotateTimeout(page[c]))

\* The 5 s timer of the error overlay removes it.
ErrorTimeout(c) ==
    /\ page[c].errorTimers > 0
    /\ Only(c, onErrorTimeout(page[c]))

\* document.hidden changes and visibilitychange is dispatched to the listeners.
VisibilityChange ==
    /\ \A c \in Canvases : CanSchedule(c)
    /\ hidden' = ~hidden
    /\ page' = [c \in Canvases |->
                  IF page[c].visibilitychange > 0
                  THEN handleVisibilityChange(page[c], ~hidden)
                  ELSE page[c]]
    /\ UNCHANGED <<build, isMobile, menu>>

\* The window is resized and resize is dispatched to the listeners.
WindowResize ==
    /\ page' = [c \in Canvases |->
                  IF page[c].resize > 0
                  THEN handleResize(page[c], page[c].layout)
                  ELSE page[c]]
    /\ UNCHANGED <<hidden, build, isMobile, menu>>

\* beforeunload: every registered viewer is disposed.
BeforeUnload ==
    /\ page' = [c \in Canvases |->
                  IF page[c].inRegistry THEN dispose(page[c]) ELSE page[c]]
    /\ UNCHANGED <<hidden, build, isMobile, menu>>

\* The loader reports the progress of a pending load.
LoadProgress(c) ==
    \E l \in DOMAIN page[c].loads, progress \in Progresses :
        /\ page[c].loads[l].status = "pending"
        /\ Only(c, onProgress(page[c], progress))

\* The page's layout changes what the container and the canvas measure.
Relayout(c) ==
    \E m \in Measurements :
        /\ m # page[c].layout
        /\ Only(c, [page[c] EXCEPT !.layout = m])

\* Fingers go down on, move over and leave a canvas that has touch listeners.
TouchStart(c) ==
    \E touches \in {1, 2}, at \in Points, d \in Separations :
        /\ page[c].touch > 0
        /\ Only(c, onTouchStart(page[c], touches, at, d))

TouchMove(c) ==
    \E touches \in {1, 2}, d \in Separations :
        /\ page[c].touch > 0
        /\ Only(c, onTouchMove(page[c], touches, d))

TouchEnd(c) ==
    /\ page[c].touch > 0
    /\ Only(c, onTouchEnd(page[c]))

\* The user zooms with OrbitControls, which keeps the camera between
\* minDistance and maxDistance.
Dolly(c) ==
    \E q \in DollyStops :
        /\ page[c].camera /\ page[c].controls
        /\ ~Less(q, minDistance * minDistance)
        /\ ~Greater(q, maxDistance * maxDistance)
        /\ Only(c, [page[c] EXCEPT !.positionLengthSq = q])

\* The page has one viewer canvas.
Focus == {"viewer1"}

(***************************************************************************)
(* Spec: the life cycle of a viewer and its render loop, for one model     *)
(* file.  Left out are the view-mode buttons, which neither read nor write *)
(* anything the life cycle or the loop depends on.                         *)
(***************************************************************************)
Next ==
    \/ \E c \in Focus : Load3DModel(c, {"full.glb"}, {TRUE})
    \/ \E c \in Focus : Construct(c)
    \/ \E c \in Focus : InitCall(c)
    \/ \E c \in Focus : DisposeCall(c)
    \/ \E c \in Focus : LoadSuccess(c)
    \/ \E c \in Focus : LoadError(c)
    \/ \E c \in Focus : Tick(c)
    \/ \E c \in Focus : RotateTimeout(c)
    \/ \E c \in Focus : ErrorTimeout(c)
    \/ VisibilityChange
    \/ WindowResize
    \/ BeforeUnload

Spec == Init /\ [][Next]_vars

(***************************************************************************)
(* SpecModels: the models of a viewer, their materials and the view modes. *)
(* Left out are the render loop's own events (frame callbacks, visibility),*)
(* which touch neither the scene nor a material.                           *)
(***************************************************************************)
NextModels ==
    \/ \E c \in Focus : Load3DModel(c, Paths, {TRUE})
    \/ \E c \in Focus : SetViewMode(c)
    \/ \E c \in Focus : InitCall(c)
    \/ \E c \in Focus : DisposeCall(c)
    \/ \E c \in Focus : LoadSuccess(c)
    \/ \E c \in Focus : LoadError(c)

SpecModels == Init /\ [][NextModels]_vars

(***************************************************************************)
(* SpecTouch: the pinch gesture on a touch device.                         *)
(***************************************************************************)
NextTouch ==
    \/ \E c \in Focus : Load3DModel(c, {"full.glb"}, {TRUE})
    \/ \E c \in Focus : DisposeCall(c)
    \/ \E c \in Focus : TouchStart(c)
    \/ \E c \in Focus : TouchMove(c)
    \/ \E c \in Focus : TouchEnd(c)
    \/ \E c \in Focus : Dolly(c)

SpecTouch == Init /\ [][NextTouch]_vars

(***************************************************************************)
(* SpecLoading: what a load reports and produces - progress, the scale of  *)
(* the model, the size of the render surface - for files with and without  *)
(* geometry and for containers that are and are not laid out.              *)
(***************************************************************************)
NextLoading ==
    \/ \E c \in Focus : Load3DModel(c, {"empty.glb", "full.glb"}, {TRUE})
    \/ \E c \in Focus : LoadProgress(c)
    \/ \E c \in Focus : LoadSuccess(c)
    \/ \E c \in Focus : LoadError(c)
    \/ \E c \in Focus : Relayout(c)
    \/ WindowResize

SpecLoading == Init /\ [][NextLoading]_vars

(***************************************************************************)
(* SpecPair: a page with two viewer canvases.  The first is used in every  *)
(* way the page offers; the second is loaded once and then left alone.     *)
(***************************************************************************)
First == "viewer1"

Second == "viewer2"

NextPair ==
    \/ Len(page[First].loads) = 0 /\ Load3DModel(First, {"full.glb"}, {TRUE})
    \/ LoadSuccess(First)
    \/ LoadError(First)
    \/ SetViewMode(First)
    \/ TouchStart(First)
    \/ TouchMove(First)
    \/ TouchEnd(First)
    \/ Len(page[Second].loads) = 0 /\ Load3DModel(Second, {"full.glb"}, {TRUE})
    \/ LoadSuccess(Second)

SpecPair == Init /\ [][NextPair]_vars

(***************************************************************************)
(* SpecOverlay: failing loads and the error overlay with its timer.  A     *)
(* timer that was set fires: the browser runs a due timer callback as long *)
(* as the page lives.                                                      *)
(***************************************************************************)
NextOverlay ==
    \/ \E c \in Focus : Load3DModel(c, {"full.glb"}, {TRUE})
    \/ \E c \in Focus : LoadError(c)
    \/ \E c \in Focus : LoadSuccess(c)
    \/ \E c \in Focus : ErrorTimeout(c)

SpecOverlay ==
    Init /\ [][NextOverlay]_vars /\ \A c \in Focus : WF_vars(ErrorTimeout(c))

(***************************************************************************)
(* SpecMenu: the mobile menu, on pages with and without the button and the *)
(* overlay.  A click runs the listener at its target and then, as it       *)
(* bubbles, the click listener of the document.                            *)
(***************************************************************************)
Aside == UNCHANGED <<page, hidden, build, isMobile>>

\* The page's script finished loading; DOMContentLoaded attaches the listeners
\* of the menu's links.
DOMContentLoaded ==
    /\ ~menu.listening
    /\ menu' = [menu EXCEPT !.listening = TRUE]
    /\ Aside

\* onclick="toggleMobileMenu()" on the menu button.
ClickMenuButton ==
    /\ menu.btn
    /\ menu' = onDocumentClick(toggleMobileMenu(menu), "button")
    /\ Aside

\* A click on a link of the menu.
ClickLink ==
    /\ menu.overlay
    /\ menu' = onDocumentClick(IF menu.listening THEN onLinkClick(menu) ELSE menu,
                               "link")
    /\ Aside

\* A click on the overlay beside its links, or anywhere else on the page.
ClickElsewhere ==
    \E target \in {"overlay", "outside"} :
        /\ target = "overlay" => menu.overlay
        /\ menu' = onDocumentClick(menu, target)
        /\ Aside

KeyDown ==
    \E key \in Keys :
        /\ menu' = onKeydown(menu, key)
        /\ Aside

InitMenu ==
    /\ page = [c \in Canvases |-> Blank]
    /\ hidden = FALSE
    /\ build \in Builds
    /\ isMobile \in BOOLEAN
    /\ menu \in { Markup(btn, overlay) : btn \in BOOLEAN, overlay \in BOOLEAN }

NextMenu ==
    \/ DOMContentLoaded
    \/ ClickMenuButton
    \/ ClickLink
    \/ ClickElsewhere
    \/ KeyDown

SpecMenu == InitMenu /\ [][NextMenu]_vars


(***************************************************************************)
(* Properties.                                                             *)
(***************************************************************************)

TypeOK == build \in Builds /\ isMobile \in BOOLEAN /\ hidden \in BOOLEAN

Range(seq) == { seq[i] : i \in DOMAIN seq }

\* The sub-parts of the model of load l, and the texture slots each was
\* delivered with.
Parts(s, l) == DOMAIN Asset(s.loads[l].path)

Slots(s, l, i) == Asset(s.loads[l].path)[i]

\* Load l's success callback runs in this step.
Succeeds(c, l) ==
    /\ l \in DOMAIN page[c].loads
    /\ page[c].loads[l].status = "pending"
    /\ page'[c].loads[l].status = "done"

\* dispose() runs on the viewer of canvas c in this step.
Disposes(c) ==
    \/ DisposeCall(c)
    \/ BeforeUnload /\ page[c].inRegistry

\* C1: once every load has settled at most one model is attached to the scene,
\* and every model that was replaced has had its geometry and each texture it
\* was delivered with (base, normal, roughness, metalness) disposed.
C1_ReplacedModelsFullyReleased ==
    \A c \in Canvases :
        /\ (\A l \in DOMAIN page[c].loads : page[c].loads[l].status # "pending")
               => Cardinality(page[c].children) <= 1
        /\ \A l \in page[c].replaced : \A i \in Parts(page[c], l) :
               /\ <<l, i, "geometry">> \in Range(page[c].released)
               /\ \A k \in Slots(page[c], l, i) : <<l, i, k>> \in Range(page[c].released)

\* C2: whenever a success callback runs on a viewer that has a scene, its
\* model becomes the current one and the only one attached, whatever the order
\* the loads were issued in; the model it replaces leaves the scene and has
\* the geometry and the material of every sub-part disposed.  At every moment
\* nothing but the current model is attached.
C2_LastCompletionWins ==
    /\ [](\A c \in Canvases : page[c].children \subseteq {page[c].model})
    /\ [][\A c \in Canvases : \A l \in 1..MaxLoads :
            (Succeeds(c, l) /\ page[c].scene) =>
                /\ page'[c].model = l
                /\ page'[c].children = {l}
                /\ page[c].model # 0 =>
                     \A i \in Parts(page[c], page[c].model) :
                        /\ <<page[c].model, i, "geometry">> \in Range(page'[c].released)
                        /\ <<page[c].model, i, "material">> \in Range(page'[c].released)
       ]_vars

\* The load issued first completed last and its model is the one shown; the
\* model of the load issued second was replaced.
C2_Witness ==
    \E c \in Canvases :
        /\ page[c].model = 1
        /\ page[c].children = {1}
        /\ 2 \in page[c].replaced

\* C3: a canvas in the registry had exactly one viewer constructed and one
\* init run for it by load3DModel, however many requests were made; a request
\* for a registered canvas leaves the viewer's own fields as they are; and once
\* a viewer is initialized nothing creates a second renderer or adds a second
\* resize, visibilitychange or touch subscription.
C3_OneViewerOneInit ==
    /\ [](\A c \in Canvases :
            /\ page[c].inRegistry => page[c].constructed = 1 /\ page[c].initByLoad = 1
            /\ ~page[c].inRegistry => page[c].constructed = 0 /\ page[c].initByLoad = 0)
    /\ [][\A c \in Canvases :
            /\ (page[c].inRegistry /\ Len(page'[c].loads) > Len(page[c].loads)) =>
                 /\ page'[c].inRegistry
                 /\ \A f \in {"scene", "camera", "renderer", "controls", "model",
                              "animationId", "viewMode", "isInitialized"} :
                        page'[c][f] = page[c][f]
            /\ page[c].isInitialized =>
                 /\ page'[c].isInitialized
                 /\ page'[c].renderers = page[c].renderers
                 /\ page'[c].resize <= page[c].resize
                 /\ page'[c].visibilitychange <= page[c].visibilitychange
                 /\ page'[c].touch = page[c].touch
       ]_vars

\* Two requests were made for the same canvas and its viewer is initialized.
C3_Witness ==
    \E c \in Canvases :
        /\ page[c].inRegistry
        /\ page[c].isInitialized
        /\ Len(page[c].loads) = 2

\* C4: dispose() never throws, and when it returns no animation-frame
\* callback of that viewer is pending; also on a viewer that was never
\* initialized and on one that was disposed before.
C4_DisposeLeavesNoFrame ==
    [][\A c \in Canvases :
          Disposes(c) => page'[c].frames = {} /\ page'[c].threw = page[c].threw
      ]_vars

\* C5: animationId is non-null exactly when a frame callback of the viewer is
\* pending.
C5_HandleIffScheduled ==
    \A c \in Canvases : (page[c].animationId # 0) <=> (page[c].frames # {})

\* C6: when dispose() returns the viewer holds no scene, camera, renderer,
\* controls or model, and none of the listeners init registered is left: resize,
\* visibilitychange, and the touch listeners on the canvas.
C6_DisposeReleasesEverything ==
    [][\A c \in Canvases :
          Disposes(c) =>
              /\ ~page'[c].scene /\ ~page'[c].camera /\ ~page'[c].renderer
              /\ ~page'[c].controls /\ page'[c].model = 0
              /\ page'[c].resize = 0
              /\ page'[c].visibilitychange = 0
              /\ page'[c].touch = 0
      ]_vars

\* C7: while the page is hidden no viewer has a frame callback pending.
C7_NoFrameWhileHidden ==
    hidden => \A c \in Canvases : page[c].frames = {}

\* C8: at most one frame callback is pending for a viewer.
C8_AtMostOneFrame ==
    \A c \in Canvases : Cardinality(page[c].frames) <= 1

\* C9: when visibilitychange reaches a viewer's handler: on hidden, an existing
\* handle is cancelled and cleared; on visible, the loop is started if a model
\* is loaded and no handle exists; on visible with no model, nothing is started.
C9_VisibilityHandler ==
    [][\A c \in Canvases :
          (hidden' # hidden /\ page[c].visibilitychange > 0) =>
              /\ (hidden' /\ page[c].animationId # 0) =>
                    /\ page'[c].animationId = 0
                    /\ page'[c].frames = page[c].frames \ {page[c].animationId}
              /\ (~hidden' /\ page[c].model # 0 /\ page[c].animationId = 0) =>
                    /\ page'[c].animationId # 0
                    /\ page'[c].animationId \in page'[c].frames
                    /\ Cardinality(page'[c].frames) = Cardinality(page[c].frames) + 1
              /\ (~hidden' /\ page[c].model = 0) =>
                    /\ page'[c].frames = page[c].frames
                    /\ page'[c].animationId = page[c].animationId
      ]_vars

\* The page is hidden and the handler has stopped the loop of a viewer that
\* shows a model.
C9_Witness ==
    \E c \in Canvases :
        /\ hidden
        /\ page[c].visibilitychange > 0
        /\ page[c].model # 0
        /\ page[c].animationId = 0
        /\ page[c].frames = {}

\* C10: in textured mode (and in the default branch) every sub-part that was
\* delivered with a base texture shows exactly the texture recorded at load,
\* whatever solid and wireframe switches came before.
C10_TexturedRestoresOriginal ==
    \A c \in Canvases :
        (page[c].model # 0 /\ page[c].viewMode \in {"textured", "xray"}) =>
            \A i \in DOMAIN page[c].loads[page[c].model].meshes :
                "map" \in Slots(page[c], page[c].model, i) =>
                    /\ page[c].loads[page[c].model].meshes[i].originalMap = "map"
                    /\ page[c].loads[page[c].model].meshes[i].map = "map"

\* A textured sub-part went through solid (its colour is still the flat grey)
\* and is back in textured mode with its base texture.
C10_Witness ==
    \E c \in Canvases :
        /\ page[c].model # 0
        /\ page[c].viewMode = "textured"
        /\ \E i \in DOMAIN page[c].loads[page[c].model].meshes :
              /\ page[c].loads[page[c].model].meshes[i].color = "0x808080"
              /\ page[c].loads[page[c].model].meshes[i].map = "map"

\* Load l's error callback runs in this step.
Fails(c, l) ==
    /\ l \in DOMAIN page[c].loads
    /\ page[c].loads[l].status = "pending"
    /\ page'[c].loads[l].status = "failed"

\* C11: when a load fails the loading overlay is removed, an error overlay
\* (with the timer that removes it) is on the page, and nothing else of the
\* viewer changes: the model that was attached stays attached with nothing of
\* it disposed, and the loop handle, the pending frames and the view mode are
\* as before.
C11_FailedLoadChangesOnlyOverlays ==
    [][\A c \in Canvases : \A l \in 1..MaxLoads :
          Fails(c, l) =>
              /\ ~page'[c].loadingEl
              /\ page'[c].errorEl
              /\ page'[c] = [page[c] EXCEPT !.loads[l].status = "failed",
                                            !.loadingEl = FALSE,
                                            !.errorEl = TRUE,
                                            !.errorTimers =
                                                IF page[c].errorEl THEN @ ELSE @ + 1,
                                            !.progressText = <<0, 1>>]
      ]_vars

\* The first load failed, and the load requested next succeeded and is shown.
C11_Witness ==
    \E c \in Canvases :
        /\ Len(page[c].loads) = 2
        /\ page[c].loads[1].status = "failed"
        /\ page[c].loads[2].status = "done"
        /\ page[c].model = 2
        /\ page[c].children = {2}
        /\ page[c].threw = "none"

\* A touchmove with two fingers d apart reaches the listener of canvas c while
\* a pinch with a reference distance is under way, on a viewer that has its
\* camera and controls.
PinchMove(c, d) ==
    /\ page[c].touch > 0
    /\ page[c].isTouch
    /\ page[c].touchStartDistanceSq > 0
    /\ page[c].camera /\ page[c].controls
    /\ page' = [page EXCEPT ![c] = onTouchMove(page[c], 2, d)]

\* C12: a two-finger move from reference distance d0 to d1 divides the
\* camera's distance from the origin by d1/d0 exactly when the result is
\* strictly between minDistance and maxDistance, and otherwise leaves the
\* camera where it is.  (In squares: new^2 * d1^2 = old^2 * d0^2.)
C12_PinchZoomsStrictlyWithinBounds ==
    [][\A c \in Canvases : \A d \in Separations :
          PinchMove(c, d) =>
              LET old == page[c].positionLengthSq
                  new == page'[c].positionLengthSq
                  d0sq == page[c].touchStartDistanceSq
                  d1sq == d * d
                  inside ==
                      /\ old[1] * d0sq > minDistance * minDistance * old[2] * d1sq
                      /\ old[1] * d0sq < maxDistance * maxDistance * old[2] * d1sq
              IN  IF inside
                  THEN new[1] * old[2] * d1sq = new[2] * old[1] * d0sq
                  ELSE new = old
      ]_vars

\* A pinch that spread the fingers from 1 to 2 pixels apart has halved the
\* camera's initial distance sqrt(10): its square is 10/4.
C12_Witness ==
    \E c \in Canvases :
        /\ page[c].isTouch
        /\ page[c].touchStartDistanceSq = 2 * 2
        /\ page[c].positionLengthSq = <<5, 2>>

\* C13: after every two-finger move the pinch reference distance is the new
\* distance, also when the zoom was rejected.
C13_ReferenceFollowsEveryMove ==
    [][\A c \in Canvases : \A d \in Separations :
          PinchMove(c, d) => page'[c].touchStartDistanceSq = d * d
      ]_vars

\* C14: the model on display was scaled by 2 / maxDimension of its bounding
\* box, and by 1, with no division by zero, when that dimension is 0.
C14_ScaleIsFinite ==
    \A c \in Canvases :
        page[c].model # 0 =>
            LET load == page[c].loads[page[c].model]
            IN  IF maxDim(load.path) = 0
                THEN load.scale = <<1, 1>>
                ELSE /\ IsFinite(load.scale)
                     /\ load.scale[1] * maxDim(load.path) = 2 * load.scale[2]

\* The progress callback of a pending load runs in this step.
Reports(c, progress) ==
    /\ \E l \in DOMAIN page[c].loads : page[c].loads[l].status = "pending"
    /\ page' = [page EXCEPT ![c] = onProgress(page[c], progress)]

\* C15: the percentage a progress notification reports is 0 when total is 0
\* and loaded / total x 100 otherwise; it is never NaN or Infinity.
C15_PercentIsFinite ==
    [][\A c \in Canvases : \A progress \in Progresses :
          Reports(c, progress) =>
              /\ IsFinite(page'[c].percent)
              /\ IF progress.total = 0
                 THEN page'[c].percent = <<0, 1>>
                 ELSE page'[c].percent[1] * progress.total
                          = page'[c].percent[2] * progress.loaded * 100
      ]_vars

\* C16: the size of the render surface and the aspect of the camera are
\* positive, and whenever init or a resize pass sets them they are the
\* measured size of the parent container, 400 standing in for a dimension
\* the container reports as 0.
C16_SurfaceSizedFromContainer ==
    /\ [](\A c \in Canvases :
            /\ page[c].camera => page[c].aspect[1] > 0 /\ page[c].aspect[2] > 0
            /\ page[c].renderer => page[c].size[1] > 0 /\ page[c].size[2] > 0)
    /\ [][\A c \in Canvases :
            /\ page'[c].size # page[c].size =>
                   page'[c].size = FromContainer(page[c].layout)
            /\ page'[c].aspect # page[c].aspect =>
                   page'[c].aspect = FromContainer(page[c].layout)
       ]_vars

\* init() runs on the uninitialized viewer of canvas c in this step, called
\* directly or by the first load3DModel for c, and the WebGLRenderer
\* constructor throws.
InitWithoutSurface(c) ==
    /\ ~page[c].isInitialized
    /\ hidden' = hidden
    /\ \/ /\ page[c].exists
          /\ \E orbit \in BOOLEAN :
                page' = [page EXCEPT ![c] =
                            init(page[c], FALSE, orbit, page[c].layout)]
       \/ /\ ~page[c].exists
          /\ \E path \in Files, btn \in BOOLEAN, loader \in BOOLEAN, orbit \in BOOLEAN :
                /\ build = "legacy" \/ loader
                /\ page' = [page EXCEPT ![c] =
                                load3DModel(page[c], path, btn, TRUE, loader, FALSE,
                                            orbit, page[c].layout)]

\* C17: when init cannot acquire the render surface it returns normally with
\* an error overlay on the page, isInitialized false, no renderer and no
\* resize or visibilitychange subscription added.
C17_FailedInitShowsErrorAndStaysUninitialized ==
    [][\A c \in Canvases :
          InitWithoutSurface(c) =>
              /\ page'[c].errorEl
              /\ page'[c].threw = page[c].threw
              /\ ~page'[c].isInitialized
              /\ ~page'[c].renderer
              /\ page'[c].resize = page[c].resize
              /\ page'[c].visibilitychange = page[c].visibilitychange
      ]_vars

\* load3DModel(c, ...) runs in this step while THREE or THREE.GLTFLoader is
\* undefined.
RequestWithoutBackend(c) ==
    \E path \in Files, btn \in BOOLEAN, three \in BOOLEAN, loader \in BOOLEAN,
       gl \in BOOLEAN, orbit \in BOOLEAN :
        /\ ~three \/ ~loader
        /\ ~page[c].exists \/ page[c].inRegistry
        /\ hidden' = hidden
        /\ page' = [page EXCEPT ![c] =
                        load3DModel(page[c], path, btn, three, loader, gl, orbit,
                                    page[c].layout)]

\* C18: a load3DModel call made while the rendering library or the model
\* loader is missing returns without touching the registry: no viewer is
\* created, initialized or modified, and nothing of the canvas changes.
C18_RequestWithoutBackendTouchesNothing ==
    [][\A c \in Canvases : RequestWithoutBackend(c) => page'[c] = page[c]]_vars

\* C19: after the beforeunload handler has run, no viewer in the registry has
\* a frame callback pending or holds a renderer, controls or a model.
C19_UnloadDisposesEveryViewer ==
    [][BeforeUnload =>
          \A c \in Canvases :
              page[c].inRegistry =>
                  /\ page'[c].frames = {}
                  /\ ~page'[c].renderer
                  /\ ~page'[c].controls
                  /\ page'[c].model = 0
      ]_vars

\* C20: every sub-part of the model on display looks as the recorded viewMode
\* says: applying the mode to it once more would change nothing.
C20_ModelShownInRecordedMode ==
    \A c \in Canvases :
        page[c].model # 0 =>
            \A i \in DOMAIN page[c].loads[page[c].model].meshes :
                page[c].loads[page[c].model].meshes[i]
                    = applyMode(page[c].loads[page[c].model].meshes[i], page[c].viewMode)

\* The page calls setViewMode(c, mode, button) in this step.
SwitchesMode(c, mode) ==
    /\ hidden' = hidden
    /\ page' = [page EXCEPT ![c] = requestViewMode(page[c], mode)]

\* C21: setViewMode on a registered viewer that has no model records the mode
\* (and marks the button) and changes nothing else of the viewer: scene, loop
\* handle, frames, overlays, loads and gesture state are as before.
C21_ModeWithoutModelOnlyRecorded ==
    [][\A c \in Canvases : \A mode \in Modes :
          (SwitchesMode(c, mode) /\ page[c].inRegistry /\ page[c].model = 0) =>
              page'[c] = [page[c] EXCEPT !.viewMode = mode, !.activeBtn = mode]
      ]_vars

\* Wireframe was requested while the first load was still pending: the mode
\* is recorded and the loading overlay is still up.
C21_Witness ==
    \E c \in Canvases :
        /\ page[c].inRegistry
        /\ page[c].model = 0
        /\ page[c].viewMode = "wireframe"
        /\ page[c].loadingEl
        /\ Len(page[c].loads) = 1
        /\ page[c].loads[1].status = "pending"

\* C23: what a mode switch does to each sub-part of the model on display:
\* wireframe sets the flag and leaves the map; solid clears the flag, removes
\* the map and sets the flat grey; textured and any other mode clear the flag
\* and put back the recorded original map if there is one.
C23_ModeSemanticsPerSubPart ==
    [][\A c \in Canvases : \A mode \in Modes :
          (SwitchesMode(c, mode) /\ page[c].inRegistry /\ page[c].model # 0) =>
              \A i \in DOMAIN page[c].loads[page[c].model].meshes :
                  LET old == page[c].loads[page[c].model].meshes[i]
                      new == page'[c].loads[page[c].model].meshes[i]
                  IN  CASE mode = "wireframe" ->
                              new.wireframe /\ new.map = old.map
                        [] mode = "solid" ->
                              /\ ~new.wireframe
                              /\ new.map = "none"
                              /\ new.color = "0x808080"
                        [] OTHER ->
                              /\ ~new.wireframe
                              /\ old.originalMap # "none" => new.map = old.originalMap
      ]_vars

\* C24: a mode switch issues no fetch and changes neither the model on
\* display, nor what is attached to the scene, nor the loop handle and its
\* frames, nor the loading and error overlays.
C24_ModeSwitchTouchesOnlyMaterials ==
    [][\A c \in Canvases : \A mode \in Modes :
          (SwitchesMode(c, mode) /\ page[c].inRegistry) =>
              /\ Len(page'[c].loads) = Len(page[c].loads)
              /\ \A l \in DOMAIN page[c].loads :
                    /\ page'[c].loads[l].path = page[c].loads[l].path
                    /\ page'[c].loads[l].status = page[c].loads[l].status
              /\ page'[c].model = page[c].model
              /\ page'[c].children = page[c].children
              /\ page'[c].animationId = page[c].animationId
              /\ page'[c].frames = page[c].frames
              /\ page'[c].loadingEl = page[c].loadingEl
              /\ page'[c].errorEl = page[c].errorEl
              /\ page'[c].released = page[c].released
      ]_vars

\* A model on display was switched to solid while a second load was pending:
\* the loop still runs and the loading overlay is still up.
C24_Witness ==
    \E c \in Canvases :
        /\ page[c].model = 1
        /\ page[c].viewMode = "solid"
        /\ \E i \in DOMAIN page[c].loads[1].meshes :
              page[c].loads[1].meshes[i].color = "0x808080"
        /\ Len(page[c].loads) = 2
        /\ page[c].loads[2].status = "pending"
        /\ page[c].loadingEl
        /\ page[c].animationId # 0
        /\ page[c].animationId \in page[c].frames

C25_CompletionClearsResizesStarts ==
    [][\A c \in Canvases : \A l \in 1..MaxLoads :
          (Succeeds(c, l) /\ page[c].scene /\ page[c].camera /\ page[c].renderer) =>
              /\ page'[c].children = {l}
              /\ page[c].model # 0 =>
                    \A i \in Parts(page[c], page[c].model) :
                        /\ <<page[c].model, i, "geometry">> \in Range(page'[c].released)
                        /\ <<page[c].model, i, "material">> \in Range(page'[c].released)
              /\ ~page'[c].loadingEl
              /\ page'[c].size = FromContainer(page[c].layout)
              /\ page'[c].aspect = FromContainer(page[c].layout)
              /\ IF page[c].animationId = 0
                 THEN /\ page'[c].animationId # 0
                      /\ page'[c].frames = page[c].frames \cup {page'[c].animationId}
                 ELSE /\ page'[c].animationId = page[c].animationId
                      /\ page'[c].frames = page[c].frames
      ]_vars

\* A pending frame callback of canvas c runs in this step.
Ticks(c) ==
    /\ hidden' = hidden
    /\ \E h \in page[c].frames :
          page' = [page EXCEPT ![c] =
                      animate([page[c] EXCEPT !.frames = @ \ {h}], hidden)]

\* C26: every tick schedules the next one.  A tick that runs while the page is
\* hidden updates no controls and renders nothing; a tick that runs while the
\* page is visible updates the controls of a viewer that has them and renders
\* one frame on a viewer that has renderer, scene and camera.
C26_TickRendersOnlyWhenVisible ==
    [][\A c \in Canvases :
          Ticks(c) =>
              /\ page'[c].animationId \in page'[c].frames
              /\ Cardinality(page'[c].frames) = Cardinality(page[c].frames)
              /\ hidden => ~page'[c].updated /\ ~page'[c].rendered
              /\ ~hidden =>
                    /\ page[c].controls => page'[c].updated
                    /\ (page[c].renderer /\ page[c].scene /\ page[c].camera)
                           => page'[c].rendered
      ]_vars

\* The loop of a complete viewer is scheduled while the page is hidden, and
\* its last run neither updated the controls nor rendered.
C26_Witness ==
    \E c \in Canvases :
        /\ hidden
        /\ page[c].model # 0
        /\ page[c].controls /\ page[c].renderer /\ page[c].scene /\ page[c].camera
        /\ page[c].animationId \in page[c].frames
        /\ ~page[c].updated
        /\ ~page[c].rendered

\* touchend reaches the listener of canvas c in this step.
TouchEnds(c) ==
    /\ hidden' = hidden
    /\ page[c].touch > 0
    /\ page' = [page EXCEPT ![c] = onTouchEnd(page[c])]

\* C27: after touchend the whole gesture state is reset: not active, no pinch
\* reference distance, no recorded start point.
C27_TouchEndResetsGesture ==
    [][\A c \in Canvases :
          TouchEnds(c) =>
              /\ ~page'[c].isTouch
              /\ page'[c].touchStartDistanceSq = 0
              /\ page'[c].touchStart = <<0, 0>>
      ]_vars

\* C28: a failed load leaves an error overlay on the container; a container
\* never holds more than one; and every overlay is removed again by its timer.
C28_OneOverlayRemovedByItsTimer ==
    /\ [](\A c \in Canvases :
            /\ page[c].errorTimers <= 1
            /\ page[c].errorEl <=> page[c].errorTimers = 1)
    /\ [][\A c \in Canvases : \A l \in 1..MaxLoads :
            Fails(c, l) => page'[c].errorEl]_vars
    /\ \A c \in Canvases : page[c].errorEl ~> ~page[c].errorEl

\* Two loads have failed and the overlay is gone again.
C28_Witness ==
    \E c \in Canvases :
        /\ Len(page[c].loads) = 2
        /\ page[c].loads[1].status = "failed"
        /\ page[c].loads[2].status = "failed"
        /\ ~page[c].errorEl
        /\ page[c].errorTimers = 0

\* C29: as long as the 2 s timer of a completed load is pending, the controls
\* auto-rotate.
C29_RotationLastsUntilOwnTimer ==
    \A c \in Canvases :
        (page[c].controls /\ page[c].timers > 0) => page[c].autoRotate

\* The position of dispose call e in the log.
Index(log, e) == CHOOSE j \in DOMAIN log : log[j] = e

\* C30: when a model is released, on replacement or on dispose, each sub-part
\* has its geometry and every texture its material holds disposed before the
\* material itself.
C30_PartsReleasedBeforeMaterial ==
    [][\A c \in Canvases :
          (page[c].model # 0 /\ Len(page'[c].released) > Len(page[c].released)) =>
              \A i \in DOMAIN page[c].loads[page[c].model].meshes :
                  LET m == page[c].model
                      mesh == page[c].loads[m].meshes[i]
                      log == page'[c].released
                  IN  /\ <<m, i, "geometry">> \in Range(log)
                      /\ <<m, i, "material">> \in Range(log)
                      /\ Index(log, <<m, i, "geometry">>) < Index(log, <<m, i, "material">>)
                      /\ \A k \in MapKinds :
                            mesh[k] # "none" =>
                                /\ <<m, i, k>> \in Range(log)
                                /\ Index(log, <<m, i, k>>) < Index(log, <<m, i, "material">>)
      ]_vars

\* A model with all four textures was released.
C30_Witness ==
    \E c \in Canvases :
        /\ <<1, 1, "metalnessMap">> \in Range(page[c].released)
        /\ <<1, 1, "map">> \in Range(page[c].released)
        /\ <<1, 1, "material">> \in Range(page[c].released)

\* dispose() has run on the registered viewer of canvas c: init gave it a
\* scene, and only dispose takes the scene away.
Disposed(c) == page[c].inRegistry /\ ~page[c].scene

\* C31: once dispose() has run on a registered viewer its model stays null
\* and its scene stays empty, and nothing that runs on it afterwards - the
\* success callback of a load that was in flight or was requested later -
\* throws.
C31_DisposedViewerStaysEmpty ==
    [][\A c \in Canvases :
          Disposed(c)' =>
              /\ page'[c].model = 0
              /\ page'[c].children = {}
              /\ Disposed(c) => page'[c].threw = page[c].threw
      ]_vars

\* C32: a success callback is applied only to a viewer that is initialized
\* and has its renderer and controls, and it runs to completion.
C32_CompletionOnlyOnInitializedViewer ==
    [][\A c \in Canvases : \A l \in 1..MaxLoads :
          Succeeds(c, l) =>
              /\ page[c].isInitialized
              /\ page[c].renderer
              /\ page[c].controls
              /\ page'[c].threw = page[c].threw
      ]_vars

\* C33: the 2 s auto-rotate timer of a successful load never throws, also
\* when dispose() ran before it fired.
C33_RotateTimerNeverThrows ==
    \A c \in Canvases : page[c].threw # "timer.autoRotate"

\* C34: when a model is released, on replacement or on dispose, the base
\* texture recorded as originalMap of each textured sub-part is disposed,
\* whatever the view mode.
C34_ReleaseDisposesOriginalMap ==
    [][\A c \in Canvases :
          (page[c].model # 0 /\ Len(page'[c].released) > Len(page[c].released)) =>
              \A i \in DOMAIN page[c].loads[page[c].model].meshes :
                  LET m == page[c].model
                      mesh == page[c].loads[m].meshes[i]
                  IN  mesh.originalMap # "none" =>
                          <<m, i, mesh.originalMap>> \in Range(page'[c].released)
      ]_vars

\* C35: a switch to textured mode leaves every textured sub-part with the
\* surface it was loaded with: its original texture map and its original
\* colour, also after solid mode.
C35_TexturedRestoresMapAndColour ==
    [][\A c \in Canvases :
          (SwitchesMode(c, "textured") /\ page[c].inRegistry /\ page[c].model # 0) =>
              \A i \in DOMAIN page[c].loads[page[c].model].meshes :
                  LET old == page[c].loads[page[c].model].meshes[i]
                      new == page'[c].loads[page[c].model].meshes[i]
                  IN  old.originalMap # "none" =>
                          /\ new.map = old.originalMap
                          /\ new.color = "original"
      ]_vars

\* C36: the loading overlay is on the container exactly while a load of the
\* viewer is pending.
C36_OverlayWhileLoadOutstanding ==
    \A c \in Canvases :
        page[c].loadingEl <=>
            \E l \in DOMAIN page[c].loads : page[c].loads[l].status = "pending"

\* A touchmove reaches the listener of canvas c in this step and computes the
\* pinch scale.
TouchMoves(c) ==
    /\ hidden' = hidden
    /\ page[c].touch > 0
    /\ page'[c].distanceSq # -1
    /\ \E touches \in {1, 2}, d \in Separations :
          page' = [page EXCEPT ![c] = onTouchMove(page[c], touches, d)]

\* C37 as stated: whatever touch events arrive, the camera of a viewer is at
\* a distance strictly between minDistance and maxDistance.
C37_DistanceStrictlyInside ==
    \A c \in Canvases :
        (page[c].camera /\ page[c].controls) =>
            /\ Greater(page[c].positionLengthSq, minDistance * minDistance)
            /\ Less(page[c].positionLengthSq, maxDistance * maxDistance)

\* C37, amended: the camera of a viewer stays at a distance within
\* [minDistance, maxDistance]; every distance a touchmove moves it to is
\* strictly inside the limits; and a touchmove computes the pinch scale only
\* with a reference distance greater than zero.
C37_TouchKeepsDistanceWithinBounds ==
    /\ [](\A c \in Canvases :
            (page[c].camera /\ page[c].controls) =>
                /\ ~Less(page[c].positionLengthSq, minDistance * minDistance)
                /\ ~Greater(page[c].positionLengthSq, maxDistance * maxDistance))
    /\ [][\A c \in Canvases :
            TouchMoves(c) =>
                /\ page[c].touchStartDistanceSq > 0
                /\ page'[c].positionLengthSq # page[c].positionLengthSq =>
                      /\ Greater(page'[c].positionLengthSq, minDistance * minDistance)
                      /\ Less(page'[c].positionLengthSq, maxDistance * maxDistance)
       ]_vars

\* The camera stands at maxDistance, and a pinch that closed the fingers from
\* 2 to 1 pixels apart, which would have doubled the distance, was rejected.
C37_Witness ==
    \E c \in Canvases :
        /\ page[c].camera /\ page[c].controls
        /\ page[c].positionLengthSq = <<maxDistance * maxDistance, 1>>
        /\ page[c].isTouch
        /\ page[c].touchStartDistanceSq = 2 * 2
        /\ page[c].distanceSq = 1 * 1

\* C38: a frame callback is scheduled for a viewer only while the viewer
\* holds a model.
C38_LoopOnlyWithModel ==
    \A c \in Canvases : page[c].frames # {} => page[c].model # 0

\* C39: the menu button has class 'active' exactly when the overlay has it,
\* and the body's scrolling is locked exactly when the overlay is active.
C39_MenuButtonOverlayAndScrollLockAgree ==
    /\ menu.btnActive <=> menu.overlayActive
    /\ menu.overflow = "hidden" <=> menu.overlayActive

\* The menu was opened twice and is closed again, the last time by Escape.
C39_Witness ==
    /\ menu.opened = 2
    /\ menu.last = "escape"
    /\ ~menu.overlayActive
    /\ ~menu.btnActive
    /\ menu.overflow = ""

====
